---- MODULE Spec2Model ----
(***************************************************************************)
(* splay: the per-scenario execution engine (ScenarioRun: pacer,           *)
(* dispatcher, worker pool, fan-in, aggregator) and the transport holder   *)
(* (getTransport).                                                         *)
(*                                                                         *)
(* Goroutines are processes with a program counter each.  An unbuffered    *)
(* channel operation is a rendezvous: one action moves the sender and the  *)
(* receiver together.  A Go select with several ready cases picks any of   *)
(* them, so each case is its own action.                                   *)
(***************************************************************************)
EXTENDS Integers, Naturals, Sequences, FiniteSets, TLC

\* ------------------------------------------------------------------ bounds
MaxCount == 2
NumWorkers == 2

\* the longest Validates list of the worker study
MaxRules == 2
\* the scenarios of the scenario file
NumScenarios == 2
\* the longest period of the count study, seconds
MaxPeriod == 25

\* ------------------------------------------------------- program constants
\* ResultState enum (iota)
ResultOK == 0
ResultValidationFail == 1
ResultRequestFail == 2

\* A Go pointer field (*int, *bool, *http.Transport): nil is the empty
\* sequence, a pointer to v is <<v>>.
Nil == <<>>
Ptr(v) == <<v>>
Deref(p) == p[1]

StatusCodes == {200, 404}

Workers == 1..NumWorkers

\* The Validates lists a scenario of the model may carry.
ValidatesChoices ==
    { <<>>,
      << [StatusCode |-> Ptr(200)] >>,
      << [StatusCode |-> Nil], [StatusCode |-> Ptr(404)] >> }

\* What runHttpRequest can return: an error, or a response with a status code.
Responses ==
    { [err |-> TRUE, StatusCode |-> 0] } \cup
    { [err |-> FALSE, StatusCode |-> sc] : sc \in StatusCodes }

VARIABLES
    \* the scenario (immutable once loaded)
    count,            \* the computed count of ScenarioRun
    Validates,        \* s.Validates
    \* the run's context
    cancelled,        \* ctx.Done() is closed
    \* pacer goroutine
    pacerPc,          \* "wait" | "reserved" | "send" | "done"
    rlChClosed,
    \* dispatcher goroutine
    dispPc,           \* "loop" | "select" | "send" | "done"
    i,                \* loop variable of the dispatcher
    c,                \* ticks the dispatcher has received
    scenarioChClosed,
    \* workers
    workerPc,         \* [Workers -> "recv" | "run" | "emit" | "done"]
    workerRes,        \* the ResultState a worker is sending on its reportCh
                      \* (the zero value while it holds none)
    reportChClosed,   \* [Workers -> BOOLEAN]
    \* merge: one forwarder per worker channel, and the closer
    fwdPc,            \* [Workers -> "range" | "send" | "done"]
    fwdVal,           \* the ResultState a forwarder is sending on ret
                      \* (the zero value while it holds none)
    wg,               \* merge's WaitGroup counter
    retClosed,        \* merge's ret channel is closed
    \* the aggregation loop of ScenarioRun
    aggPc,            \* "range" | "done"
    success, validationFail, requestFail,
    \* history
    executed,         \* results syncWorker has returned, by kind
    atCancel,         \* what had happened when cancel() was called
    \* ---- the transport holder of one scenario ----
    \* the scenario's keep-alive fields (immutable once loaded)
    DisableKeepalive, \* s.DisableKeepalive, *bool
    Keepalive,        \* s.Keepalive, *int, seconds
    IdleTimeout,      \* s.IdleTimeout, *int, seconds
    \* transportHolder
    transport,        \* th.transport: Nil or a pointer to a transport
    thSync,           \* th.sync: 0 when free, else the caller holding it
    refreshDeadline,  \* th.refreshDeadline, 0 is the zero time.Time
    \* the environment of the holder
    now,              \* the wall clock, ticks
    allocated,        \* transports built so far; the next one gets id allocated + 1
    drains,           \* the sleeping goroutines that will drain an old transport
    closedIdle,       \* ids of transports whose CloseIdleConnections was called
    \* the callers of getTransport (the scenario's workers)
    thPc,             \* [Workers -> "idle" | "locked" | "build" | "ret"]
    thLoc,            \* the call's locals
    \* history
    lastRet,          \* [Workers -> id of the transport last returned, 0 if none]
    \* ---- one worker, statement by statement ----
    swValidates,      \* s.Validates of the units it is given
    swLeft,           \* units scenarioCh will still deliver
    swPc,             \* "recv" | "request" | "check" | "emit" | "done"
    swResp,           \* runHttpRequest's result (the zero value while none)
    swIdx,            \* checkResponse's position in s.Validates, 0 outside
    swFailed,         \* the rule checkResponse's error names, 0 for nil
    swRes,            \* the ResultState syncWorker returns
    \* history
    swExamined,       \* rules evaluated for the unit at hand
    swRequests,       \* calls of runHttpRequest
    swTaken,          \* units received
    swLog,            \* per unit sent on reportCh: response, outcome, rules evaluated
    \* ---- main: one goroutine per scenario ----
    \* the scenario file (immutable once loaded)
    supName,          \* [Scenarios -> s.Name]
    supCount,         \* [Scenarios -> the count ScenarioRun computes]
    supBadURL,        \* [Scenarios -> s.URL does not parse]
    supNoTiming,      \* [Scenarios -> s.Period and s.Count are both nil]
    supCancelled,     \* main's ctx is done
    mainPc,           \* "spawn" | "read" | "done" | "crashed"
    mainNext,         \* the scenario the for loop of main is at
    supWg,            \* main's WaitGroup counter
    supMutex,         \* main's mutex: 0 when free, else the goroutine holding it
    reports,          \* the map reports, a function from names to reports
    supPc,            \* [Scenarios -> "none" | "start" | "lock" | "insert"
                      \*               | "unlock" | "wgdone" | "done"]
    supReport,        \* [Scenarios -> the goroutine's local report]
    printed,          \* the map as main's final loop read it
    \* history
    supInterrupted,   \* the interrupt signal was received
    \* ---- ScenarioRun's count computation ----
    cntPeriod,        \* s.Period, *int
    cntCount,         \* s.Count, *int
    cntThroughput,    \* s.Throughput as the scenario file writes it: num/den
    cntPc,            \* "start" | "done" | "panic"
    cntResult         \* the local count

engineVars ==
    << count, Validates, cancelled, pacerPc, rlChClosed, dispPc, i, c,
       scenarioChClosed, workerPc, workerRes, reportChClosed, fwdPc, fwdVal,
       wg, retClosed, aggPc, success, validationFail, requestFail,
       executed, atCancel >>

thVars ==
    << DisableKeepalive, Keepalive, IdleTimeout, transport, thSync,
       refreshDeadline, now, allocated, drains, closedIdle, thPc, thLoc,
       lastRet >>

swVars ==
    << swValidates, swLeft, swPc, swResp, swIdx, swFailed, swRes, swExamined,
       swRequests, swTaken, swLog >>

supVars ==
    << supName, supCount, supBadURL, supNoTiming, supCancelled, mainPc,
       mainNext, supWg, supMutex, reports, supPc, supReport, printed,
       supInterrupted >>

cntVars == << cntPeriod, cntCount, cntThroughput, cntPc, cntResult >>

\* what a step of the engine, of the holder, of the worker, of main and of
\* the count computation leaves alone
nonEngineVars == << thVars, swVars, supVars, cntVars >>
nonHolderVars == << engineVars, swVars, supVars, cntVars >>
nonWorkerVars == << engineVars, thVars, supVars, cntVars >>
nonMainVars == << engineVars, thVars, swVars, cntVars >>
nonCountVars == << engineVars, thVars, swVars, supVars >>

vars == << engineVars, thVars, swVars, supVars, cntVars >>

\* ------------------------------------------------------------ pure functions

\* (mutant) the rule fails when the status code is the expected one.
RuleFailsOnMatch(v, statusCode) ==
    v.StatusCode # Nil /\ statusCode = Deref(v.StatusCode)

\* v.StatusCode != nil && res.StatusCode != *v.StatusCode
RuleFails(v, statusCode) ==
    v.StatusCode # Nil /\ statusCode # Deref(v.StatusCode)

\* checkResponse: the index of the first rule the status code fails, 0 if none.
RECURSIVE checkFrom(_, _, _)
checkFrom(vs, k, statusCode) ==
    IF k > Len(vs) THEN 0
    ELSE IF RuleFails(vs[k], statusCode) THEN k
    ELSE checkFrom(vs, k + 1, statusCode)

checkResponse(vs, statusCode) == checkFrom(vs, 1, statusCode)

\* syncWorker: classify one request.
syncWorker(vs, resp) ==
    IF resp.err THEN ResultRequestFail
    ELSE IF checkResponse(vs, resp.StatusCode) # 0 THEN ResultValidationFail
    ELSE ResultOK

\* (mutant) the loop stops one iteration early: i < count
LoopCondStrict(k, n) == k < n

\* (mutant) the loop runs one iteration more: i <= count + 1
LoopCondOneMore(k, n) == k <= n + 1

\* the dispatcher's loop condition, for i := 1; i <= count; i++
LoopCond(k, n) == k <= n

Total == success + validationFail + requestFail

\* atCancel before cancel() is called
NoCancel == [c |-> -1, taken |-> -1, inflight |-> FALSE]

\* ---------------------------------------------------------------------- Init
EngineInit ==
    /\ count \in 0..MaxCount
    /\ Validates \in ValidatesChoices
    /\ cancelled = FALSE
    /\ pacerPc = "wait"
    /\ rlChClosed = FALSE
    /\ dispPc = "loop"
    /\ i = 1
    /\ c = 0
    /\ scenarioChClosed = FALSE
    /\ workerPc = [w \in Workers |-> "recv"]
    /\ workerRes = [w \in Workers |-> ResultOK]
    /\ reportChClosed = [w \in Workers |-> FALSE]
    /\ fwdPc = [w \in Workers |-> "range"]
    /\ fwdVal = [w \in Workers |-> ResultOK]
    /\ wg = NumWorkers
    /\ retClosed = FALSE
    /\ aggPc = "range"
    /\ success = 0
    /\ validationFail = 0
    /\ requestFail = 0
    /\ executed = [k \in {ResultOK, ResultValidationFail, ResultRequestFail} |-> 0]
    /\ atCancel = NoCancel


\* ------------------------------------------------------------- cancellation
\* main's signal goroutine calls cancel(): ctx.Done() closes.
Cancel ==
    /\ ~cancelled
    /\ cancelled' = TRUE
    /\ atCancel' = [c |-> c, taken |-> i - 1, inflight |-> i - 1 > Total]
    /\ UNCHANGED nonEngineVars
    /\ UNCHANGED << count, Validates, pacerPc, rlChClosed, dispPc, i, c,
                    scenarioChClosed, workerPc, workerRes, reportChClosed,
                    fwdPc, fwdVal, wg, retClosed, aggPc, success,
                    validationFail, requestFail, executed >>

\* -------------------------------------------------------------------- pacer
\* rl.Wait(ctx) is entered.  The limiter first looks at ctx: when it is
\* already done, Wait returns the error and the goroutine returns, closing rlCh.
PacerWaitErr ==
    /\ pacerPc = "wait"
    /\ cancelled
    /\ pacerPc' = "done"
    /\ rlChClosed' = TRUE
    /\ UNCHANGED nonEngineVars
    /\ UNCHANGED << count, Validates, cancelled, dispPc, i, c,
                    scenarioChClosed, workerPc, workerRes, reportChClosed,
                    fwdPc, fwdVal, wg, retClosed, aggPc, success,
                    validationFail, requestFail, executed, atCancel >>

\* rl.Wait(ctx) is entered with ctx not done: it reserves a token and waits
\* for its slot.
PacerWaitEnter ==
    /\ pacerPc = "wait"
    /\ ~cancelled
    /\ pacerPc' = "reserved"
    /\ UNCHANGED nonEngineVars
    /\ UNCHANGED << count, Validates, cancelled, rlChClosed, dispPc, i, c,
                    scenarioChClosed, workerPc, workerRes, reportChClosed,
                    fwdPc, fwdVal, wg, retClosed, aggPc, success,
                    validationFail, requestFail, executed, atCancel >>

\* The slot is due: rl.Wait returns nil and the pacer goes on to send the tick.
\* Wait looks at ctx once on entry and then only while its timer runs, so a
\* call entered before cancel() can still return nil after it.
PacerWaitOk ==
    /\ pacerPc = "reserved"
    /\ pacerPc' = "send"
    /\ UNCHANGED nonEngineVars
    /\ UNCHANGED << count, Validates, cancelled, rlChClosed, dispPc, i, c,
                    scenarioChClosed, workerPc, workerRes, reportChClosed,
                    fwdPc, fwdVal, wg, retClosed, aggPc, success,
                    validationFail, requestFail, executed, atCancel >>

\* ctx is done while rl.Wait waits for the slot: Wait returns the error, the
\* goroutine returns and its deferred close(rlCh) runs.
PacerWaitCancelled ==
    /\ pacerPc = "reserved"
    /\ cancelled
    /\ pacerPc' = "done"
    /\ rlChClosed' = TRUE
    /\ UNCHANGED nonEngineVars
    /\ UNCHANGED << count, Validates, cancelled, dispPc, i, c,
                    scenarioChClosed, workerPc, workerRes, reportChClosed,
                    fwdPc, fwdVal, wg, retClosed, aggPc, success,
                    validationFail, requestFail, executed, atCancel >>

\* --------------------------------------------------------------- dispatcher
\* The for statement's condition; when it fails the goroutine returns and its
\* deferred close(scenarioCh) runs.
DispLoop ==
    /\ dispPc = "loop"
    /\ IF LoopCond(i, count)
       THEN /\ dispPc' = "select"
            /\ UNCHANGED scenarioChClosed
       ELSE /\ dispPc' = "done"
            /\ scenarioChClosed' = TRUE
    /\ UNCHANGED nonEngineVars
    /\ UNCHANGED << count, Validates, cancelled, pacerPc, rlChClosed, i, c,
                    workerPc, workerRes, reportChClosed, fwdPc, fwdVal, wg,
                    retClosed, aggPc, success, validationFail, requestFail,
                    executed, atCancel >>

\* (mutant) the dispatcher returns on ctx.Done() without closing scenarioCh
DispCtxDoneNoClose ==
    /\ dispPc = "select"
    /\ cancelled
    /\ dispPc' = "done"
    /\ UNCHANGED nonEngineVars
    /\ UNCHANGED << count, Validates, cancelled, pacerPc, rlChClosed, i, c,
                    scenarioChClosed, workerPc, workerRes, reportChClosed,
                    fwdPc, fwdVal, wg, retClosed, aggPc, success,
                    validationFail, requestFail, executed, atCancel >>

\* select: case <-ctx.Done(): return
DispCtxDone ==
    /\ dispPc = "select"
    /\ cancelled
    /\ dispPc' = "done"
    /\ scenarioChClosed' = TRUE
    /\ UNCHANGED nonEngineVars
    /\ UNCHANGED << count, Validates, cancelled, pacerPc, rlChClosed, i, c,
                    workerPc, workerRes, reportChClosed, fwdPc, fwdVal, wg,
                    retClosed, aggPc, success, validationFail, requestFail,
                    executed, atCancel >>

\* select: case _, ok := <-rlCh with ok: the pacer's send and this receive
\* meet; c++.
DispRecvTick ==
    /\ dispPc = "select"
    /\ pacerPc = "send"
    /\ pacerPc' = "wait"
    /\ c' = c + 1
    /\ dispPc' = "send"
    /\ UNCHANGED nonEngineVars
    /\ UNCHANGED << count, Validates, cancelled, rlChClosed, i,
                    scenarioChClosed, workerPc, workerRes, reportChClosed,
                    fwdPc, fwdVal, wg, retClosed, aggPc, success,
                    validationFail, requestFail, executed, atCancel >>

\* select: case _, ok := <-rlCh with !ok: return
DispRecvClosed ==
    /\ dispPc = "select"
    /\ rlChClosed
    /\ dispPc' = "done"
    /\ scenarioChClosed' = TRUE
    /\ UNCHANGED nonEngineVars
    /\ UNCHANGED << count, Validates, cancelled, pacerPc, rlChClosed, i, c,
                    workerPc, workerRes, reportChClosed, fwdPc, fwdVal, wg,
                    retClosed, aggPc, success, validationFail, requestFail,
                    executed, atCancel >>

\* scenarioCh <- s meets worker w's receive in for s := range scenarioCh; i++.
DispSend(w) ==
    /\ dispPc = "send"
    /\ workerPc[w] = "recv"
    /\ workerPc' = [workerPc EXCEPT ![w] = "run"]
    /\ i' = i + 1
    /\ dispPc' = "loop"
    /\ UNCHANGED nonEngineVars
    /\ UNCHANGED << count, Validates, cancelled, pacerPc, rlChClosed, c,
                    scenarioChClosed, workerRes, reportChClosed, fwdPc, fwdVal,
                    wg, retClosed, aggPc, success, validationFail, requestFail,
                    executed, atCancel >>

\* ------------------------------------------------------------------ workers
\* (mutant) the request is made under the run's ctx: when ctx is done the
\* worker gives the unit up and reports nothing.
WorkerRunUnderCtx(w) ==
    /\ workerPc[w] = "run"
    /\ IF cancelled
       THEN /\ workerPc' = [workerPc EXCEPT ![w] = "recv"]
            /\ UNCHANGED << workerRes, executed >>
       ELSE /\ \E resp \in Responses :
                  LET r == syncWorker(Validates, resp) IN
                  /\ workerRes' = [workerRes EXCEPT ![w] = r]
                  /\ executed' = [executed EXCEPT ![r] = @ + 1]
            /\ workerPc' = [workerPc EXCEPT ![w] = "emit"]
    /\ UNCHANGED nonEngineVars
    /\ UNCHANGED << count, Validates, cancelled, pacerPc, rlChClosed, dispPc,
                    i, c, scenarioChClosed, reportChClosed, fwdPc, fwdVal, wg,
                    retClosed, aggPc, success, validationFail, requestFail,
                    atCancel >>

\* syncWorker(ctx, s): the request runs under its own timeout context (ctx is
\* not used), then the response is checked.
WorkerRun(w) ==
    /\ workerPc[w] = "run"
    /\ \E resp \in Responses :
          LET r == syncWorker(Validates, resp) IN
          /\ workerRes' = [workerRes EXCEPT ![w] = r]
          /\ executed' = [executed EXCEPT ![r] = @ + 1]
    /\ workerPc' = [workerPc EXCEPT ![w] = "emit"]
    /\ UNCHANGED nonEngineVars
    /\ UNCHANGED << count, Validates, cancelled, pacerPc, rlChClosed, dispPc,
                    i, c, scenarioChClosed, reportChClosed, fwdPc, fwdVal, wg,
                    retClosed, aggPc, success, validationFail, requestFail,
                    atCancel >>

\* reportCh <- result meets forwarder w's receive in for i := range c.
WorkerEmit(w) ==
    /\ workerPc[w] = "emit"
    /\ fwdPc[w] = "range"
    /\ fwdVal' = [fwdVal EXCEPT ![w] = workerRes[w]]
    /\ fwdPc' = [fwdPc EXCEPT ![w] = "send"]
    /\ workerPc' = [workerPc EXCEPT ![w] = "recv"]
    /\ workerRes' = [workerRes EXCEPT ![w] = ResultOK]
    /\ UNCHANGED nonEngineVars
    /\ UNCHANGED << count, Validates, cancelled, pacerPc, rlChClosed, dispPc,
                    i, c, scenarioChClosed, reportChClosed, wg,
                    retClosed, aggPc, success, validationFail, requestFail,
                    executed, atCancel >>

\* range scenarioCh ends on the closed channel; deferred close(reportCh).
WorkerExit(w) ==
    /\ workerPc[w] = "recv"
    /\ scenarioChClosed
    /\ workerPc' = [workerPc EXCEPT ![w] = "done"]
    /\ reportChClosed' = [reportChClosed EXCEPT ![w] = TRUE]
    /\ UNCHANGED nonEngineVars
    /\ UNCHANGED << count, Validates, cancelled, pacerPc, rlChClosed, dispPc,
                    i, c, scenarioChClosed, workerRes, fwdPc, fwdVal, wg,
                    retClosed, aggPc, success, validationFail, requestFail,
                    executed, atCancel >>

\* -------------------------------------------------------------------- merge
\* ret <- i meets the aggregation loop's receive; the switch counts the state.
FwdSend(w) ==
    /\ fwdPc[w] = "send"
    /\ aggPc = "range"
    /\ fwdPc' = [fwdPc EXCEPT ![w] = "range"]
    /\ fwdVal' = [fwdVal EXCEPT ![w] = ResultOK]
    /\ success' = IF fwdVal[w] = ResultOK THEN success + 1 ELSE success
    /\ validationFail' =
          IF fwdVal[w] = ResultValidationFail THEN validationFail + 1
          ELSE validationFail
    /\ requestFail' =
          IF fwdVal[w] = ResultRequestFail THEN requestFail + 1
          ELSE requestFail
    /\ UNCHANGED nonEngineVars
    /\ UNCHANGED << count, Validates, cancelled, pacerPc, rlChClosed, dispPc,
                    i, c, scenarioChClosed, workerPc, workerRes,
                    reportChClosed, wg, retClosed, aggPc, executed,
                    atCancel >>

\* range c ends on the closed worker channel; wg.Done().
FwdExit(w) ==
    /\ fwdPc[w] = "range"
    /\ reportChClosed[w]
    /\ fwdPc' = [fwdPc EXCEPT ![w] = "done"]
    /\ wg' = wg - 1
    /\ UNCHANGED nonEngineVars
    /\ UNCHANGED << count, Validates, cancelled, pacerPc, rlChClosed, dispPc,
                    i, c, scenarioChClosed, workerPc, workerRes,
                    reportChClosed, fwdVal, retClosed, aggPc, success,
                    validationFail, requestFail, executed, atCancel >>

\* (mutant) the closer does not wait for the forwarders.
MergeCloseEarly ==
    /\ ~retClosed
    /\ retClosed' = TRUE
    /\ UNCHANGED nonEngineVars
    /\ UNCHANGED << count, Validates, cancelled, pacerPc, rlChClosed, dispPc,
                    i, c, scenarioChClosed, workerPc, workerRes,
                    reportChClosed, fwdPc, fwdVal, wg, aggPc, success,
                    validationFail, requestFail, executed, atCancel >>

\* wg.Wait() returns; close(ret).
MergeClose ==
    /\ wg = 0
    /\ ~retClosed
    /\ retClosed' = TRUE
    /\ UNCHANGED nonEngineVars
    /\ UNCHANGED << count, Validates, cancelled, pacerPc, rlChClosed, dispPc,
                    i, c, scenarioChClosed, workerPc, workerRes,
                    reportChClosed, fwdPc, fwdVal, wg, aggPc, success,
                    validationFail, requestFail, executed, atCancel >>

\* --------------------------------------------------------------- aggregator
\* range reportCh ends; ScenarioRun returns the report.
AggReturn ==
    /\ aggPc = "range"
    /\ retClosed
    /\ aggPc' = "done"
    /\ UNCHANGED nonEngineVars
    /\ UNCHANGED << count, Validates, cancelled, pacerPc, rlChClosed, dispPc,
                    i, c, scenarioChClosed, workerPc, workerRes,
                    reportChClosed, fwdPc, fwdVal, wg, retClosed, success,
                    validationFail, requestFail, executed, atCancel >>

\* ========================================================= transport holder
\* the clock's bound, in ticks
MaxTime == 32

\* The clock counts ticks of 100ms: time.Second is 10 ticks.
Second == 10

\* The instants at which the clock is read: each whole second after the
\* start and the tick after it (1.0s and 1.1s after an event at the start
\* are both there).
Instants == {t \in 1..MaxTime : t % Second \in {1, 2}}

\* package defaults
defaultDisableKeepaliveOff == FALSE

defaultDisableKeepalive == TRUE
defaultKeepalive == 10 * Second
defaultIdleTimeout == 10 * Second

\* the keep-alive fields a scenario of the model may carry
DisableKeepaliveChoices == {Nil, Ptr(TRUE), Ptr(FALSE)}
KeepaliveChoices == {Nil, Ptr(1)}
IdleTimeoutChoices == {Nil, Ptr(1)}

\* the locals of a call that has not computed them
NoLoc ==
    [disableKeepalive |-> FALSE, keepaliveTimeout |-> 0, idleTimeout |-> 0,
     now |-> 0]

\* getTransport's locals disableKeepalive, keepaliveTimeout, idleTimeout:
\* the default, overridden by the argument when it is not nil.
Policy(disableKeepalive_, keepaliveTimeout_, idleTimeout_) ==
    [disableKeepalive |->
        IF disableKeepalive_ # Nil THEN Deref(disableKeepalive_)
        ELSE defaultDisableKeepalive,
     keepaliveTimeout |->
        IF keepaliveTimeout_ # Nil THEN Deref(keepaliveTimeout_) * Second
        ELSE defaultKeepalive,
     idleTimeout |->
        IF idleTimeout_ # Nil THEN Deref(idleTimeout_) * Second
        ELSE defaultIdleTimeout]

\* (mutant) the test th.transport == nil is lost: every call builds.
NeedBuildAlways(loc, tr, deadline) == TRUE

\* (mutant) the deadline test is not strict: now.After is taken for "not
\* before".
NeedBuildNonStrict(loc, tr, deadline) ==
    IF loc.disableKeepalive THEN tr = Nil
    ELSE tr = Nil \/ loc.now >= deadline

\* Whether the call builds a transport: with keep-alive disabled only when
\* there is none; otherwise when there is none or now.After(refreshDeadline).
NeedBuild(loc, tr, deadline) ==
    IF loc.disableKeepalive THEN tr = Nil
    ELSE tr = Nil \/ loc.now > deadline

\* &http.Transport{DisableKeepAlives: ..., IdleConnTimeout: ...}, a new object
NewTransport(id, loc) ==
    [id |-> id, DisableKeepAlives |-> loc.disableKeepalive,
     IdleConnTimeout |-> loc.idleTimeout]

\* (mutant) the drain goroutine does not sleep the extra second.
ScheduleDrainNoGrace(old, loc, t) ==
    IF old # Nil
    THEN { [id |-> Deref(old).id, at |-> t + loc.idleTimeout] }
    ELSE {}

\* if old != nil { go func() { time.Sleep(idleTimeout + time.Second);
\* old.CloseIdleConnections() }() }: the drains the rotation at time t starts.
ScheduleDrain(old, loc, t) ==
    IF old # Nil
    THEN { [id |-> Deref(old).id, at |-> t + loc.idleTimeout + Second] }
    ELSE {}

THInit ==
    /\ DisableKeepalive \in DisableKeepaliveChoices
    /\ Keepalive \in KeepaliveChoices
    /\ IdleTimeout \in IdleTimeoutChoices
    /\ transport = Nil
    /\ thSync = 0
    /\ refreshDeadline = 0
    /\ now = 1
    /\ allocated = 0
    /\ drains = {}
    /\ closedIdle = {}
    /\ thPc = [k \in Workers |-> "idle"]
    /\ thLoc = [k \in Workers |-> NoLoc]
    /\ lastRet = [k \in Workers |-> 0]

\* (mutant) the call does not wait for the mutex.
thLockNoMutex(k) ==
    /\ thPc[k] = "idle"
    /\ thSync' = k
    /\ thPc' = [thPc EXCEPT ![k] = "locked"]
    /\ UNCHANGED nonHolderVars
    /\ UNCHANGED << DisableKeepalive, Keepalive, IdleTimeout, transport,
                    refreshDeadline, now, allocated, drains, closedIdle,
                    thLoc, lastRet >>

\* th.sync.Lock()
thLock(k) ==
    /\ thPc[k] = "idle"
    /\ thSync = 0
    /\ thSync' = k
    /\ thPc' = [thPc EXCEPT ![k] = "locked"]
    /\ UNCHANGED nonHolderVars
    /\ UNCHANGED << DisableKeepalive, Keepalive, IdleTimeout, transport,
                    refreshDeadline, now, allocated, drains, closedIdle,
                    thLoc, lastRet >>

\* The policy locals are computed; with keep-alive enabled time.Now() is
\* read; the call then builds a transport or goes straight to its return.
thCheck(k) ==
    /\ thPc[k] = "locked"
    /\ LET pol == Policy(DisableKeepalive, Keepalive, IdleTimeout)
           loc == [disableKeepalive |-> pol.disableKeepalive,
                   keepaliveTimeout |-> pol.keepaliveTimeout,
                   idleTimeout |-> pol.idleTimeout,
                   now |-> IF pol.disableKeepalive THEN 0 ELSE now]
       IN /\ thLoc' = [thLoc EXCEPT ![k] = loc]
          /\ thPc' = [thPc EXCEPT ![k] =
                IF NeedBuild(loc, transport, refreshDeadline) THEN "build"
                ELSE "ret"]
    /\ UNCHANGED nonHolderVars
    /\ UNCHANGED << DisableKeepalive, Keepalive, IdleTimeout, transport,
                    thSync, refreshDeadline, now, allocated, drains,
                    closedIdle, lastRet >>

\* th.transport = &http.Transport{...}.  With keep-alive enabled also
\* th.refreshDeadline = now.Add(keepaliveTimeout), and when there was an old
\* transport a goroutine is started that sleeps idleTimeout + 1s and then
\* calls old.CloseIdleConnections().
thBuild(k) ==
    /\ thPc[k] = "build"
    /\ LET loc == thLoc[k]
           old == transport
       IN /\ transport' = Ptr(NewTransport(allocated + 1, loc))
          /\ allocated' = allocated + 1
          /\ IF loc.disableKeepalive
             THEN UNCHANGED << refreshDeadline, drains >>
             ELSE /\ refreshDeadline' = loc.now + loc.keepaliveTimeout
                  /\ drains' = drains \cup ScheduleDrain(old, loc, now)
    /\ thPc' = [thPc EXCEPT ![k] = "ret"]
    /\ UNCHANGED nonHolderVars
    /\ UNCHANGED << DisableKeepalive, Keepalive, IdleTimeout, thSync, now,
                    closedIdle, thLoc, lastRet >>

\* return th.transport, then the deferred th.sync.Unlock()
thReturn(k) ==
    /\ thPc[k] = "ret"
    /\ lastRet' = [lastRet EXCEPT ![k] = Deref(transport).id]
    /\ thSync' = 0
    /\ thPc' = [thPc EXCEPT ![k] = "idle"]
    /\ thLoc' = [thLoc EXCEPT ![k] = NoLoc]
    /\ UNCHANGED nonHolderVars
    /\ UNCHANGED << DisableKeepalive, Keepalive, IdleTimeout, transport,
                    refreshDeadline, now, allocated, drains, closedIdle >>

\* a drain goroutine's sleep is over: old.CloseIdleConnections()
DrainFire ==
    /\ \E d \in drains :
          /\ now >= d.at
          /\ drains' = drains \ {d}
          /\ closedIdle' = closedIdle \cup {d.id}
    /\ UNCHANGED nonHolderVars
    /\ UNCHANGED << DisableKeepalive, Keepalive, IdleTimeout, transport,
                    thSync, refreshDeadline, now, allocated, thPc, thLoc,
                    lastRet >>

\* time passes, to the next instant
Tick ==
    /\ \E t \in Instants :
          /\ t > now
          /\ \A u \in Instants : u > now => t <= u
          /\ now' = t
    /\ UNCHANGED nonHolderVars
    /\ UNCHANGED << DisableKeepalive, Keepalive, IdleTimeout, transport,
                    thSync, refreshDeadline, allocated, drains, closedIdle,
                    thPc, thLoc, lastRet >>

getTransport == \E k \in Workers : thLock(k) \/ thCheck(k) \/ thBuild(k) \/ thReturn(k)

THNext ==
    \/ getTransport
    \/ DrainFire
    \/ Tick

\* ============================================= one worker, step by step
\* The goroutine of scenarioWorker with syncWorker, runHttpRequest and
\* checkResponse inlined, one statement a step.

\* a rule expects a status code or none
RuleChoices == {[StatusCode |-> Nil]} \cup {[StatusCode |-> Ptr(sc)] : sc \in StatusCodes}

\* the Validates lists of up to MaxRules rules
RuleLists == UNION {[1..n -> RuleChoices] : n \in 0..MaxRules}

\* no response at hand
NoResp == [err |-> FALSE, StatusCode |-> 0]

SWInit ==
    /\ swValidates \in RuleLists
    /\ swLeft \in 0..MaxCount
    /\ swPc = "recv"
    /\ swResp = NoResp
    /\ swIdx = 0
    /\ swFailed = 0
    /\ swRes = ResultOK
    /\ swExamined = 0
    /\ swRequests = 0
    /\ swTaken = 0
    /\ swLog = <<>>

\* for s := range scenarioCh receives a unit
swRecv ==
    /\ swPc = "recv"
    /\ swLeft > 0
    /\ swLeft' = swLeft - 1
    /\ swTaken' = swTaken + 1
    /\ swPc' = "request"
    /\ UNCHANGED nonWorkerVars
    /\ UNCHANGED << swValidates, swResp, swIdx, swFailed, swRes, swExamined,
                    swRequests, swLog >>

\* range scenarioCh ends on the closed channel
swExit ==
    /\ swPc = "recv"
    /\ swLeft = 0
    /\ swPc' = "done"
    /\ UNCHANGED nonWorkerVars
    /\ UNCHANGED << swValidates, swLeft, swResp, swIdx, swFailed, swRes,
                    swExamined, swRequests, swTaken, swLog >>

\* (mutant) a failed request is made again.
swRequestErrRetry ==
    /\ swPc = "request"
    /\ swRequests' = swRequests + 1
    /\ swPc' = "request"
    /\ UNCHANGED nonWorkerVars
    /\ UNCHANGED << swValidates, swLeft, swResp, swIdx, swFailed, swRes,
                    swExamined, swTaken, swLog >>

\* runHttpRequest returns an error: syncWorker returns ResultRequestFail
swRequestErr ==
    /\ swPc = "request"
    /\ swRequests' = swRequests + 1
    /\ swResp' = [err |-> TRUE, StatusCode |-> 0]
    /\ swRes' = ResultRequestFail
    /\ swPc' = "emit"
    /\ UNCHANGED nonWorkerVars
    /\ UNCHANGED << swValidates, swLeft, swIdx, swFailed, swExamined, swTaken,
                    swLog >>

\* runHttpRequest returns a response: checkResponse is entered
swRequestOk ==
    /\ swPc = "request"
    /\ swRequests' = swRequests + 1
    /\ \E sc \in StatusCodes : swResp' = [err |-> FALSE, StatusCode |-> sc]
    /\ swIdx' = 1
    /\ swPc' = "check"
    /\ UNCHANGED nonWorkerVars
    /\ UNCHANGED << swValidates, swLeft, swFailed, swRes, swExamined, swTaken,
                    swLog >>

\* One turn of for _, v := range s.Validates: past the last rule return nil
\* (ResultOK); a rule that fails returns the error naming it
\* (ResultValidationFail); else on to the next rule.
swCheckRule ==
    /\ swPc = "check"
    /\ IF swIdx > Len(swValidates)
       THEN /\ swFailed' = 0
            /\ swRes' = ResultOK
            /\ swPc' = "emit"
            /\ UNCHANGED << swIdx, swExamined >>
       ELSE IF RuleFails(swValidates[swIdx], swResp.StatusCode)
       THEN /\ swFailed' = swIdx
            /\ swRes' = ResultValidationFail
            /\ swPc' = "emit"
            /\ swExamined' = swExamined + 1
            /\ UNCHANGED swIdx
       ELSE /\ swIdx' = swIdx + 1
            /\ swExamined' = swExamined + 1
            /\ UNCHANGED << swFailed, swRes, swPc >>
    /\ UNCHANGED nonWorkerVars
    /\ UNCHANGED << swValidates, swLeft, swResp, swRequests, swTaken, swLog >>

\* reportCh <- syncWorker(ctx, s), then the next turn of the range loop
swEmit ==
    /\ swPc = "emit"
    /\ swLog' = Append(swLog, [resp |-> swResp, result |-> swRes,
                               failed |-> swFailed, examined |-> swExamined])
    /\ swPc' = "recv"
    /\ swResp' = NoResp
    /\ swIdx' = 0
    /\ swFailed' = 0
    /\ swRes' = ResultOK
    /\ swExamined' = 0
    /\ UNCHANGED nonWorkerVars
    /\ UNCHANGED << swValidates, swLeft, swRequests, swTaken >>

scenarioWorker ==
    \/ swRecv
    \/ swExit
    \/ swRequestErr
    \/ swRequestOk
    \/ swCheckRule
    \/ swEmit

\* ===================================================== main: the supervisor
Scenarios == 1..NumScenarios

\* ScenarioReport's zero value
NoReport == [SuccessCount |-> 0, ValidationFailCount |-> 0, RequestFailCount |-> 0]

ReportTotal(rep) ==
    rep.SuccessCount + rep.ValidationFailCount + rep.RequestFailCount

\* The reports ScenarioRun(ctx, s) can return for a scenario of count n: all
\* n units when ctx is not done, any number of them when it is.  With a URL
\* http.NewRequest rejects every unit is a ResultRequestFail; otherwise each
\* unit is whatever syncWorker made of its request: a success, a validation
\* failure or a request failure.
RunReports(n, badURL, ctxDone) ==
    { rep \in [SuccessCount : 0..n, ValidationFailCount : 0..n,
               RequestFailCount : 0..n] :
          /\ ReportTotal(rep) \in (IF ctxDone THEN 0..n ELSE {n})
          /\ badURL => rep.RequestFailCount = ReportTotal(rep) }

\* the scenario names of the file: all different, or all the same
NameChoices == { [s \in Scenarios |-> s], [s \in Scenarios |-> 1] }

\* the counts of the scenarios of the file: one unit, or the most
SupCountChoices == {1, MaxCount}

\* which scenarios of the file have a URL that does not parse: none, the
\* first, the last, or all
BadURLChoices ==
    { [s \in Scenarios |-> s \in B] :
          B \in { {}, {1}, {NumScenarios}, Scenarios } }

\* which scenarios of the file give neither period nor count: none, the
\* first, or the last
NoTimingChoices ==
    { [s \in Scenarios |-> s \in B] : B \in { {}, {1}, {NumScenarios} } }

\* reports[name] = report
MapPut(map, name, rep) ==
    [n \in DOMAIN map \cup {name} |-> IF n = name THEN rep ELSE map[n]]

SupInit ==
    /\ supName \in NameChoices
    /\ supCount \in [Scenarios -> SupCountChoices]
    /\ supBadURL \in BadURLChoices
    /\ supNoTiming \in NoTimingChoices
    /\ (\E s \in Scenarios : supNoTiming[s]) => (\A s \in Scenarios : ~supBadURL[s])
    /\ supCancelled = FALSE
    /\ supInterrupted = FALSE
    /\ mainPc = "spawn"
    /\ mainNext = 1
    /\ supWg = 0
    /\ supMutex = 0
    /\ reports = << >>
    /\ supPc = [s \in Scenarios |-> "none"]
    /\ supReport = [s \in Scenarios |-> NoReport]
    /\ printed = << >>

\* the signal goroutine receives os.Interrupt: cancel()
supCancel ==
    /\ ~supInterrupted
    /\ mainPc \notin {"done", "crashed"}
    /\ supCancelled' = TRUE
    /\ supInterrupted' = TRUE
    /\ UNCHANGED nonMainVars
    /\ UNCHANGED << supName, supCount, supBadURL, supNoTiming, mainPc, mainNext, supWg,
                    supMutex, reports, supPc, supReport, printed >>

\* one turn of for _, s := range scenario.Scenarios: wg.Add(1); go func(s)
mainSpawn ==
    /\ mainPc = "spawn"
    /\ mainNext <= NumScenarios
    /\ supWg' = supWg + 1
    /\ supPc' = [supPc EXCEPT ![mainNext] = "start"]
    /\ mainNext' = mainNext + 1
    /\ UNCHANGED nonMainVars
    /\ UNCHANGED << supName, supCount, supBadURL, supNoTiming, supCancelled, mainPc,
                    supMutex, reports, supReport, printed, supInterrupted >>

\* ScenarioRun(ctx, s) with s.Period and s.Count both nil: count = *s.Count
\* dereferences nil and the goroutine panics; its deferred calls run next.
supPanic(s) ==
    /\ mainPc # "crashed"
    /\ supPc[s] = "start"
    /\ supNoTiming[s]
    /\ supPc' = [supPc EXCEPT ![s] = "panicUnlock"]
    /\ UNCHANGED nonMainVars
    /\ UNCHANGED << supName, supCount, supBadURL, supNoTiming, supCancelled,
                    mainPc, mainNext, supWg, supMutex, reports, supReport,
                    printed, supInterrupted >>

\* the deferred mutex.Unlock() of the panicking goroutine, which never locked:
\* it releases the mutex under the goroutine that holds it, and on a free
\* mutex it is the fatal error "unlock of unlocked mutex" that ends the
\* process at once.
supPanicUnlock(s) ==
    /\ mainPc # "crashed"
    /\ supPc[s] = "panicUnlock"
    /\ IF supMutex = 0
       THEN /\ mainPc' = "crashed"
            /\ UNCHANGED << supMutex, supPc >>
       ELSE /\ supMutex' = 0
            /\ supPc' = [supPc EXCEPT ![s] = "panicDone"]
            /\ UNCHANGED mainPc
    /\ UNCHANGED nonMainVars
    /\ UNCHANGED << supName, supCount, supBadURL, supNoTiming, supCancelled,
                    mainNext, supWg, reports, supReport, printed,
                    supInterrupted >>

\* the deferred wg.Done() of the panicking goroutine
supPanicDone(s) ==
    /\ mainPc # "crashed"
    /\ supPc[s] = "panicDone"
    /\ supWg' = supWg - 1
    /\ supPc' = [supPc EXCEPT ![s] = "panicExit"]
    /\ UNCHANGED nonMainVars
    /\ UNCHANGED << supName, supCount, supBadURL, supNoTiming, supCancelled,
                    mainPc, mainNext, supMutex, reports, supReport, printed,
                    supInterrupted >>

\* the deferred calls have run: the panic is printed and the process exits
supPanicExit(s) ==
    /\ mainPc \notin {"done", "crashed"}
    /\ supPc[s] = "panicExit"
    /\ mainPc' = "crashed"
    /\ UNCHANGED nonMainVars
    /\ UNCHANGED << supName, supCount, supBadURL, supNoTiming, supCancelled,
                    mainNext, supWg, supMutex, reports, supPc, supReport,
                    printed, supInterrupted >>

\* report := ScenarioRun(ctx, s)
supRun(s) ==
    /\ mainPc # "crashed"
    /\ supPc[s] = "start"
    /\ ~supNoTiming[s]
    /\ \E rep \in RunReports(supCount[s], supBadURL[s], supCancelled) :
          supReport' = [supReport EXCEPT ![s] = rep]
    /\ supPc' = [supPc EXCEPT ![s] = "lock"]
    /\ UNCHANGED nonMainVars
    /\ UNCHANGED << supName, supCount, supBadURL, supNoTiming, supCancelled, mainPc, mainNext,
                    supWg, supMutex, reports, printed, supInterrupted >>

\* mutex.Lock()
supLock(s) ==
    /\ mainPc # "crashed"
    /\ supPc[s] = "lock"
    /\ supMutex = 0
    /\ supMutex' = s
    /\ supPc' = [supPc EXCEPT ![s] = "insert"]
    /\ UNCHANGED nonMainVars
    /\ UNCHANGED << supName, supCount, supBadURL, supNoTiming, supCancelled, mainPc, mainNext,
                    supWg, reports, supReport, printed, supInterrupted >>

\* reports[s.Name] = report
supInsert(s) ==
    /\ mainPc # "crashed"
    /\ supPc[s] = "insert"
    /\ reports' = MapPut(reports, supName[s], supReport[s])
    /\ supPc' = [supPc EXCEPT ![s] = "unlock"]
    /\ UNCHANGED nonMainVars
    /\ UNCHANGED << supName, supCount, supBadURL, supNoTiming, supCancelled, mainPc, mainNext,
                    supWg, supMutex, supReport, printed, supInterrupted >>

\* the deferred mutex.Unlock(): it releases the mutex whoever locked it, and
\* on a mutex a panicking sibling has released already it is the fatal error
\* "unlock of unlocked mutex" that ends the process at once.
supUnlock(s) ==
    /\ mainPc # "crashed"
    /\ supPc[s] = "unlock"
    /\ IF supMutex = 0
       THEN /\ mainPc' = "crashed"
            /\ UNCHANGED << supMutex, supPc >>
       ELSE /\ supMutex' = 0
            /\ supPc' = [supPc EXCEPT ![s] = "wgdone"]
            /\ UNCHANGED mainPc
    /\ UNCHANGED nonMainVars
    /\ UNCHANGED << supName, supCount, supBadURL, supNoTiming, supCancelled,
                    mainNext, supWg, reports, supReport, printed,
                    supInterrupted >>

\* the deferred wg.Done()
supDone(s) ==
    /\ mainPc # "crashed"
    /\ supPc[s] = "wgdone"
    /\ supWg' = supWg - 1
    /\ supPc' = [supPc EXCEPT ![s] = "done"]
    /\ UNCHANGED nonMainVars
    /\ UNCHANGED << supName, supCount, supBadURL, supNoTiming, supCancelled, mainPc, mainNext,
                    supMutex, reports, supReport, printed, supInterrupted >>

\* the loop of main is over and wg.Wait() returns
mainJoin ==
    /\ mainPc = "spawn"
    /\ mainNext > NumScenarios
    /\ supWg = 0
    /\ mainPc' = "read"
    /\ UNCHANGED nonMainVars
    /\ UNCHANGED << supName, supCount, supBadURL, supNoTiming, supCancelled, mainNext, supWg,
                    supMutex, reports, supPc, supReport, printed,
                    supInterrupted >>

\* for name, report := range reports; then main returns and its deferred
\* cancel() makes ctx done
mainRead ==
    /\ mainPc = "read"
    /\ printed' = reports
    /\ supCancelled' = TRUE
    /\ mainPc' = "done"
    /\ UNCHANGED nonMainVars
    /\ UNCHANGED << supName, supCount, supBadURL, supNoTiming, mainNext, supWg,
                    supMutex, reports, supPc, supReport, supInterrupted >>

supGoroutine ==
    \E s \in Scenarios :
        \/ supPanic(s)
        \/ supPanicUnlock(s)
        \/ supPanicDone(s)
        \/ supPanicExit(s)
        \/ supRun(s)
        \/ supLock(s)
        \/ supInsert(s)
        \/ supUnlock(s)
        \/ supDone(s)

\* every step of main and its goroutines but the interrupt
SupStep == mainSpawn \/ supGoroutine \/ mainJoin \/ mainRead

SupNext == supCancel \/ SupStep

\* ================================================== the count computation
\* count = int(math.Ceil(float64(*s.Period) * s.Throughput)) is float64
\* arithmetic.  A positive float64 is a 53-bit significand M and a binary
\* exponent, its value M * 2^exp with 2^52 <= M < 2^53.  The significand is
\* kept in three limbs of 18 bits, M = m2 * 2^36 + m1 * 2^18 + m0, so that
\* no intermediate value exceeds 32 bits.  Zero has the significand 0.
LimbBits == 18

RECURSIVE Pow2(_)
Pow2(k) == IF k = 0 THEN 1 ELSE 2 * Pow2(k - 1)

Limb == Pow2(LimbBits)

\* the top limb of a normalised significand has 17 bits
TopBits == 17

FloatZero == [m2 |-> 0, m1 |-> 0, m0 |-> 0, exp |-> 0]

\* the e with 2^e <= n/d < 2^(e+1), for n/d >= 1 and for n/d < 1
RECURSIVE Log2Up(_, _, _)
Log2Up(n, d, e) == IF d * Pow2(e + 1) <= n THEN Log2Up(n, d, e + 1) ELSE e

RECURSIVE Log2Down(_, _, _)
Log2Down(n, d, k) == IF n * Pow2(k) >= d THEN 0 - k ELSE Log2Down(n, d, k + 1)

FloorLog2(n, d) == IF n >= d THEN Log2Up(n, d, 0) ELSE Log2Down(n, d, 1)

\* Round to nearest, ties to even: the significand of limbs m2, m1, m0 and
\* exponent exp, with the guard bit below it and sticky telling that
\* something non-zero lies below the guard bit.
RoundFloat(m2, m1, m0, exp, guard, sticky) ==
    LET up == guard = 1 /\ (sticky \/ m0 % 2 = 1)
        n0 == IF up THEN m0 + 1 ELSE m0
        n1 == m1 + n0 \div Limb
        n2 == m2 + n1 \div Limb
    IN IF n2 = Pow2(TopBits)
       THEN [m2 |-> Pow2(TopBits - 1), m1 |-> 0, m0 |-> 0, exp |-> exp + 1]
       ELSE [m2 |-> n2, m1 |-> n1 % Limb, m0 |-> n0 % Limb, exp |-> exp]

\* the float64 the decimal num/den of the scenario file is read as
\* (yaml's strconv.ParseFloat: the nearest float64), by long division
FloatOf(num, den) ==
    IF num = 0 THEN FloatZero
    ELSE LET e == FloorLog2(num, den)
             n == IF e >= 0 THEN num ELSE num * Pow2(0 - e)
             d == IF e >= 0 THEN den * Pow2(e) ELSE den
             q2 == (n * Pow2(TopBits - 1)) \div d
             r2 == (n * Pow2(TopBits - 1)) % d
             q1 == (r2 * Limb) \div d
             r1 == (r2 * Limb) % d
             q0 == (r1 * Limb) \div d
             r0 == (r1 * Limb) % d
             guard == IF 2 * r0 >= d THEN 1 ELSE 0
             sticky == 2 * r0 - guard * d # 0
         IN RoundFloat(q2, q1, q0, e - 52, guard, sticky)

\* the s with 2^(TopBits - 1 + s) <= t < 2^(TopBits + s)
RECURSIVE ExtraBits(_, _)
ExtraBits(t, s) == IF t < Pow2(TopBits + s) THEN s ELSE ExtraBits(t, s + 1)

\* float64(p) * f for a small natural p: the exact product, rounded
FloatMul(p, f) ==
    IF p = 0 \/ f = FloatZero THEN FloatZero
    ELSE LET t0 == p * f.m0
             t1 == p * f.m1 + t0 \div Limb
             t2 == p * f.m2 + t1 \div Limb
             l0 == t0 % Limb
             l1 == t1 % Limb
             s == ExtraBits(t2, 0)
             low == l0 % Pow2(s)
             guard == IF s = 0 THEN 0 ELSE low \div Pow2(s - 1)
             sticky == s > 0 /\ low % Pow2(s - 1) # 0
         IN RoundFloat(t2 \div Pow2(s),
                       l1 \div Pow2(s) + (t2 % Pow2(s)) * Pow2(LimbBits - s),
                       l0 \div Pow2(s) + (l1 % Pow2(s)) * Pow2(LimbBits - s),
                       f.exp + s, guard, sticky)

\* int(math.Ceil(f)) for f >= 0 below 2^31
CeilInt(f) ==
    IF f = FloatZero THEN 0
    ELSE LET shift == 0 - f.exp
         IN IF shift >= 53 THEN 1
            ELSE IF shift >= 2 * LimbBits
            THEN LET k == shift - 2 * LimbBits
                 IN f.m2 \div Pow2(k)
                    + (IF f.m2 % Pow2(k) # 0 \/ f.m1 # 0 \/ f.m0 # 0
                       THEN 1 ELSE 0)
            ELSE LET k == shift - LimbBits
                 IN f.m2 * Pow2(LimbBits - k) + f.m1 \div Pow2(k)
                    + (IF f.m1 % Pow2(k) # 0 \/ f.m0 # 0 THEN 1 ELSE 0)

\* int(math.Ceil(float64(*s.Period) * s.Throughput))
CountOfPeriod(period, throughput) ==
    CeilInt(FloatMul(period, FloatOf(throughput.num, throughput.den)))

\* the throughputs of the model's scenario files: 10, 0.5, 2.2, 0.28
ThroughputChoices ==
    { [num |-> 10, den |-> 1], [num |-> 1, den |-> 2],
      [num |-> 22, den |-> 10], [num |-> 28, den |-> 100] }

PeriodChoices == {Nil} \cup {Ptr(p) : p \in 0..MaxPeriod}

CountChoices == {Nil} \cup {Ptr(n) : n \in 0..MaxCount}

CntInit ==
    /\ cntPeriod \in PeriodChoices
    /\ cntCount \in CountChoices
    /\ cntThroughput \in ThroughputChoices
    /\ cntPc = "start"
    /\ cntResult = 0

\* if s.Period != nil { count = ... } else { count = *s.Count }; with
\* neither given *s.Count is a nil dereference and the goroutine panics.
cntCompute ==
    /\ cntPc = "start"
    /\ IF cntPeriod # Nil
       THEN /\ cntResult' = CountOfPeriod(Deref(cntPeriod), cntThroughput)
            /\ cntPc' = "done"
       ELSE IF cntCount # Nil
       THEN /\ cntResult' = Deref(cntCount)
            /\ cntPc' = "done"
       ELSE /\ cntPc' = "panic"
            /\ UNCHANGED cntResult
    /\ UNCHANGED nonCountVars
    /\ UNCHANGED << cntPeriod, cntCount, cntThroughput >>

\* ------------------------------------------------------- the specifications
\* the count computation while another part is studied: done, for count 0
CntParked ==
    /\ cntPeriod = Nil
    /\ cntCount = Ptr(0)
    /\ cntThroughput = [num |-> 0, den |-> 1]
    /\ cntPc = "done"
    /\ cntResult = 0

\* main while another part is studied: an empty scenario file, read out.
SupParked ==
    /\ supName = << >>
    /\ supCount = << >>
    /\ supBadURL = << >>
    /\ supNoTiming = << >>
    /\ supCancelled = TRUE
    /\ supInterrupted = FALSE
    /\ mainPc = "done"
    /\ mainNext = 1
    /\ supWg = 0
    /\ supMutex = 0
    /\ reports = << >>
    /\ supPc = << >>
    /\ supReport = << >>
    /\ printed = << >>

\* The worker study while another part is studied: no unit to come.
SWParked ==
    /\ SWInit
    /\ swValidates = <<>>
    /\ swLeft = 0

\* The holder while the engine is studied: no policy given, nobody calling.
THParked ==
    /\ THInit
    /\ DisableKeepalive = Nil
    /\ Keepalive = Nil
    /\ IdleTimeout = Nil

\* The engine while the holder is studied: a run of count 0 not yet started.
EngineParked ==
    /\ EngineInit
    /\ count = 0
    /\ Validates = <<>>

Init == EngineInit /\ THParked /\ SWParked /\ SupParked /\ CntParked

THStart == EngineParked /\ THInit /\ SWParked /\ SupParked /\ CntParked

THSpec == THStart /\ [][THNext]_vars

SWStart == EngineParked /\ THParked /\ SWInit /\ SupParked /\ CntParked

SWSpec == SWStart /\ [][scenarioWorker]_vars

CntStart == EngineParked /\ THParked /\ SWParked /\ SupParked /\ CntInit

CntSpec == CntStart /\ [][cntCompute]_vars

SupStart == EngineParked /\ THParked /\ SWParked /\ SupInit /\ CntParked

SupSpec == SupStart /\ [][SupNext]_vars

\* --------------------------------------------------------------------- Next
Pacer == PacerWaitErr \/ PacerWaitEnter \/ PacerWaitOk \/ PacerWaitCancelled

Dispatcher ==
    \/ DispLoop
    \/ DispCtxDone
    \/ DispRecvTick
    \/ DispRecvClosed
    \/ \E w \in Workers : DispSend(w)

WorkerStep == \E w \in Workers : WorkerRun(w) \/ WorkerEmit(w) \/ WorkerExit(w)

MergeStep == (\E w \in Workers : FwdSend(w) \/ FwdExit(w)) \/ MergeClose

Next ==
    \/ Cancel
    \/ Pacer
    \/ Dispatcher
    \/ WorkerStep
    \/ MergeStep
    \/ AggReturn

Spec == Init /\ [][Next]_vars

\* Every step of the run but cancel(), which is the environment's.
Step == Pacer \/ Dispatcher \/ WorkerStep \/ MergeStep \/ AggReturn

\* Go runs every runnable goroutine eventually, a request ends by response,
\* error or its own timeout, and the limiter's slot comes due.  The run is
\* only required not to stop while some goroutine can take a step, which is
\* weaker than fairness to each goroutine; cancel() has no fairness.
Fairness == WF_vars(Step)

FairSpec == Init /\ [][Next]_vars /\ Fairness

\* =================================================================== claims

Returned == aggPc = "done"

\* C1: a run with count = N that is not cancelled returns a report whose
\* three counts sum to N.
C1_CountsSumToCount ==
    (Returned /\ ~cancelled) => Total = count

C1_Witness ==
    /\ Returned
    /\ ~cancelled
    /\ count >= 2
    /\ Total = count
    /\ validationFail >= 1
    /\ requestFail >= 1

\* C2: when cancel() was called after the dispatcher had received k ticks
\* (k = 0 included), the returned report's counts sum to exactly k.
C2_CancelAfterKTicksCountsK ==
    (Returned /\ cancelled) => Total = atCancel.c

\* C3: the dispatcher receives no tick from rlCh once ctx is done.
C3_NoTickAfterCancel ==
    [][cancelled => c' = c]_vars

\* C4: once ctx is done the dispatcher hands no further unit to scenarioCh
\* and receives no further tick.
C4_NoDispatchAfterCancel ==
    [][cancelled => (i' = i /\ c' = c)]_vars

\* C5: every unit a worker has taken from scenarioCh, before or after
\* cancel(), is run and counted: the returned report equals what syncWorker
\* returned, kind by kind, its sum is the number of units taken, and that is
\* no less than the units taken when cancel() was called.
C5_InFlightCounted ==
    Returned =>
        /\ success = executed[ResultOK]
        /\ validationFail = executed[ResultValidationFail]
        /\ requestFail = executed[ResultRequestFail]
        /\ Total = i - 1
        /\ cancelled => Total >= atCancel.taken

\* a run that returned, cancelled while units were taken and not yet counted
C5_Witness ==
    /\ Returned
    /\ cancelled
    /\ atCancel.inflight
    /\ atCancel.taken >= 2

\* C6: ScenarioRun eventually returns, with scenarioCh closed, every worker
\* and forwarder gone and the merged stream closed.
C6_EventuallyReturns ==
    <>( /\ Returned
        /\ scenarioChClosed
        /\ \A w \in Workers : workerPc[w] = "done" /\ fwdPc[w] = "done"
        /\ retClosed )

\* a run that returned after cancel() cut the dispatch short
C6_Witness ==
    /\ Returned
    /\ cancelled
    /\ atCancel.c < count
    /\ Total < count
    /\ Total >= 1

\* C7: with count = 0 the dispatcher never enters its select (it waits for no
\* tick and no cancellation), hands over nothing, the counts stay zero, and
\* the run returns.
C7_ZeroCount ==
    /\ [](count = 0 =>
            /\ dispPc \in {"loop", "done"}
            /\ c = 0
            /\ i = 1
            /\ Total = 0)
    /\ ((count = 0) ~> Returned)

C7_Witness ==
    /\ count = 0
    /\ Returned
    /\ Total = 0
    /\ ~cancelled

\* C8: once ctx is done the pacer goroutine eventually closes rlCh.
C8_PacerEventuallyCloses ==
    cancelled ~> rlChClosed

\* the rule at position j of the worker's list fails status code sc
Fails(j, sc) ==
    /\ swValidates[j].StatusCode # Nil
    /\ Deref(swValidates[j].StatusCode) # sc

\* the units the worker has reported that had a response
Checked == {n \in 1..Len(swLog) : ~swLog[n].resp.err}

\* C13: checkResponse takes the rules in list order and returns the error of
\* the first rule whose expected status code differs from the response's,
\* having evaluated no rule after it; it returns nil when no rule fails, and
\* for any status code when the list is empty.
C13_FirstFailingRule ==
    /\ [](\A n \in Checked :
            LET e == swLog[n]
                sc == e.resp.StatusCode
            IN /\ e.failed # 0 =>
                     /\ e.failed \in 1..Len(swValidates)
                     /\ Fails(e.failed, sc)
                     /\ \A j \in 1..(e.failed - 1) : ~Fails(j, sc)
                     /\ e.examined = e.failed
               /\ e.failed = 0 =>
                     /\ \A j \in 1..Len(swValidates) : ~Fails(j, sc)
                     /\ e.examined = Len(swValidates)
               /\ swValidates = <<>> => e.failed = 0
               /\ e.failed = checkResponse(swValidates, sc))
    /\ [][(swPc = "check" /\ swExamined' # swExamined) =>
            /\ swExamined' = swIdx
            /\ swExamined = swIdx - 1]_vars

\* status 200 against the rules 404, 200: the error names the first rule and
\* the second was not evaluated
C13_Witness ==
    /\ swValidates = << [StatusCode |-> Ptr(404)], [StatusCode |-> Ptr(200)] >>
    /\ \E n \in Checked :
          /\ swLog[n].resp.StatusCode = 200
          /\ swLog[n].failed = 1
          /\ swLog[n].examined = 1

\* the unit at hand has been received / has had its request made
AtHand == IF swPc \in {"request", "check", "emit"} THEN 1 ELSE 0
Requested == IF swPc \in {"check", "emit"} THEN 1 ELSE 0

\* C14: every unit the worker receives gets one request and one outcome: a
\* request error gives ResultRequestFail with no rule evaluated, a response
\* that fails a rule gives ResultValidationFail (404 against the one rule
\* 200 included), a response that fails none gives ResultOK; whatever the
\* outcome the worker goes back to receive the next unit.
C14_ClassifiedOnce ==
    /\ [](/\ \A n \in 1..Len(swLog) :
              LET e == swLog[n] IN
              /\ e.resp.err => (e.result = ResultRequestFail /\ e.examined = 0)
              /\ (~e.resp.err /\ \E j \in 1..Len(swValidates) :
                                     Fails(j, e.resp.StatusCode))
                    => e.result = ResultValidationFail
              /\ (~e.resp.err /\ \A j \in 1..Len(swValidates) :
                                     ~Fails(j, e.resp.StatusCode))
                    => e.result = ResultOK
              /\ (swValidates = << [StatusCode |-> Ptr(200)] >>
                    /\ e.resp = [err |-> FALSE, StatusCode |-> 404])
                    => e.result = ResultValidationFail
              /\ e.result = syncWorker(swValidates, e.resp)
          /\ swTaken = Len(swLog) + AtHand
          /\ swRequests = Len(swLog) + Requested)
    /\ [][swLog' # swLog =>
            /\ Len(swLog') = Len(swLog) + 1
            /\ swPc = "emit"
            /\ swPc' = "recv"]_vars

\* a failed request, then 404 against the rule 200, and the worker back at
\* its receive
C14_Witness ==
    /\ swValidates = << [StatusCode |-> Ptr(200)] >>
    /\ Len(swLog) = 2
    /\ swLog[1].result = ResultRequestFail
    /\ swLog[2].resp = [err |-> FALSE, StatusCode |-> 404]
    /\ swLog[2].result = ResultValidationFail
    /\ swPc = "recv"

\* the goroutines that have their report from ScenarioRun
HasRun == {s \in Scenarios : supPc[s] \notin {"none", "start"}}

\* the names of the scenario file
FileNames == {supName[s] : s \in Scenarios}

\* C15: a goroutine's run is outside the mutex, which is held exactly from
\* before the insertion until the unlock that follows it; the map changes
\* only by the insertion of a goroutine holding the mutex; once wg.Wait()
\* has returned every goroutine is done, the map has one entry for each name
\* of the file, holding the report of a scenario of that name (of that very
\* scenario when names are unique), and it no longer changes; what main reads
\* is that map.
C15_ReportsMapGuarded ==
    /\ [](/\ \A s \in Scenarios :
              (supMutex = s) <=> (supPc[s] \in {"insert", "unlock"})
          /\ mainPc \in {"read", "done"} =>
                /\ \A s \in Scenarios : supPc[s] = "done"
                /\ DOMAIN reports = FileNames
                /\ \A s \in Scenarios :
                      \E t \in Scenarios :
                          /\ supName[t] = supName[s]
                          /\ reports[supName[s]] = supReport[t]
                /\ (\A s, t \in Scenarios : supName[s] = supName[t] => s = t)
                      => \A s \in Scenarios : reports[supName[s]] = supReport[s]
          /\ mainPc = "done" => printed = reports)
    /\ [][/\ reports' # reports =>
                /\ \E s \in Scenarios :
                      /\ supMutex = s
                      /\ supPc[s] = "insert"
                      /\ reports' = MapPut(reports, supName[s], supReport[s])
                /\ mainPc = "spawn"
           /\ \A s \in Scenarios :
                 (supPc[s] = "start" /\ supPc'[s] # "start") => supMutex # s
         ]_vars

\* C16: no scenario's failure brings the process down, which would cut its
\* siblings' runs off and leave main without reports; a scenario that has
\* run without an interrupt has all its units in its report, every unit a
\* request failure when its own URL is bad; and when main has read the map
\* it holds a report for every scenario's name.
C16_FailuresDoNotAbortSiblings ==
    /\ mainPc # "crashed"
    /\ \A s \in HasRun :
          /\ ~supInterrupted => ReportTotal(supReport[s]) = supCount[s]
          /\ supBadURL[s] =>
                supReport[s].RequestFailCount = ReportTotal(supReport[s])
    /\ mainPc = "done" =>
          /\ \A s \in Scenarios : supName[s] \in DOMAIN printed
          /\ \A s \in Scenarios :
                \E t \in Scenarios :
                    /\ supName[t] = supName[s]
                    /\ printed[supName[s]] = supReport[t]

\* C17: merge's ret is closed only when every worker has returned and closed
\* its reportCh, every forwarder has drained its channel and returned, and
\* every result a worker produced has been received from ret (none missing);
\* nothing is sent on ret once it is closed.
C17_MergeClosesLast ==
    /\ [](retClosed =>
            /\ \A w \in Workers :
                  /\ workerPc[w] = "done"
                  /\ reportChClosed[w]
                  /\ fwdPc[w] = "done"
            /\ wg = 0
            /\ success = executed[ResultOK]
            /\ validationFail = executed[ResultValidationFail]
            /\ requestFail = executed[ResultRequestFail])
    /\ [][retClosed =>
            /\ success' = success
            /\ validationFail' = validationFail
            /\ requestFail' = requestFail
            /\ fwdPc' = fwdPc
            /\ retClosed']_vars

\* ret closed after both workers' results, of different kinds, went through
C17_Witness ==
    /\ retClosed
    /\ ~Returned
    /\ Total = 2
    /\ success = 1
    /\ validationFail = 1

\* the least integer not below n/d
CeilDiv(n, d) == (n + d - 1) \div d

\* C18: the count is ceil(period * throughput) whenever a period is given,
\* whatever the explicit count, and the explicit count when no period is
\* given; throughput 10 and period 2 give 20.
C18_CountIsCeilOfPeriodTimesThroughput ==
    cntPc = "done" =>
        /\ cntPeriod # Nil =>
              cntResult = CeilDiv(Deref(cntPeriod) * cntThroughput.num,
                                  cntThroughput.den)
        /\ (cntPeriod = Nil /\ cntCount # Nil) => cntResult = Deref(cntCount)
        /\ (cntPeriod = Ptr(2) /\ cntThroughput = [num |-> 10, den |-> 1])
              => cntResult = 20

\* ------------------------------------------------------- transport holder

\* the scenario gives no keep-alive policy
Unspecified == DisableKeepalive = Nil /\ Keepalive = Nil /\ IdleTimeout = Nil

\* the calls that have computed their policy
PastCheck == {k \in Workers : thPc[k] \in {"build", "ret"}}

\* C9 as stated: with no policy given every call runs with keep-alive
\* enabled (the rotating branch), a 10s refresh interval and a 10s idle
\* timeout.
C9_DefaultKeepaliveEnabled ==
    Unspecified =>
        \A k \in PastCheck :
            /\ thLoc[k].disableKeepalive = FALSE
            /\ thLoc[k].keepaliveTimeout = 10 * Second
            /\ thLoc[k].idleTimeout = 10 * Second

\* C9 as amended: with no policy given every call runs with keep-alive
\* disabled (the branch that builds once and never rotates), the refresh
\* interval local is 10s and the idle timeout 10s; the transport built has
\* DisableKeepAlives set and IdleConnTimeout 10s, no refresh deadline is ever
\* set and no drain is scheduled.
C9_DefaultKeepaliveDisabled ==
    Unspecified =>
        /\ \A k \in PastCheck :
              /\ thLoc[k].disableKeepalive = TRUE
              /\ thLoc[k].keepaliveTimeout = 10 * Second
              /\ thLoc[k].idleTimeout = 10 * Second
        /\ transport # Nil =>
              /\ Deref(transport).DisableKeepAlives = TRUE
              /\ Deref(transport).IdleConnTimeout = 10 * Second
        /\ refreshDeadline = 0
        /\ drains = {}
        /\ allocated <= 1

\* no policy given, the transport built, a call returning it later on
C9_Witness ==
    /\ Unspecified
    /\ transport # Nil
    /\ now >= 3
    /\ \E k \in Workers : thPc[k] = "ret" /\ lastRet[k] = 1

\* the keep-alive-disabled branch is the one the calls take
StaticPolicy == Policy(DisableKeepalive, Keepalive, IdleTimeout).disableKeepalive

\* C10: with keep-alive disabled the transport is built lazily by the first
\* call and only once; every call, at any time and from any caller, returns
\* that one transport; nothing is rotated or drained.
C10_DisabledNeverRotates ==
    StaticPolicy =>
        /\ allocated <= 1
        /\ (transport = Nil) <=> (allocated = 0)
        /\ \A k \in Workers : lastRet[k] \in {0, 1}
        /\ \A k \in Workers : lastRet[k] # 0 => Deref(transport).id = lastRet[k]
        /\ refreshDeadline = 0
        /\ drains = {}
        /\ closedIdle = {}

\* keep-alive disabled by the scenario, time has passed to the clock's bound
\* and every caller has been returned the one transport
C10_Witness ==
    /\ DisableKeepalive = Ptr(TRUE)
    /\ now >= 5
    /\ \A k \in Workers : lastRet[k] = 1
    /\ \E k \in Workers : thPc[k] = "ret"

\* the policy the calls run with
Pol == Policy(DisableKeepalive, Keepalive, IdleTimeout)

\* the id of the holder's current transport, 0 when there is none
Current == IF transport = Nil THEN 0 ELSE Deref(transport).id

\* C11: with keep-alive enabled a call builds a transport exactly when the
\* holder has none or the time it read is strictly after refreshDeadline; the
\* build puts a transport never seen before in the holder and, in the same
\* step, sets refreshDeadline to the time read plus the keep-alive duration;
\* no other step changes the transport or the deadline, and the call returns
\* the holder's transport.  With a keep-alive of 1s a call that reads the
\* clock 1.1s or more after the first call did is not returned the first
\* transport.
C11_RefreshWhenPastDeadline ==
    /\ [][~StaticPolicy =>
            /\ \A k \in Workers :
                  /\ (thPc[k] = "locked" /\ thPc'[k] # "locked") =>
                        /\ thPc'[k] = "build" <=>
                              (transport = Nil \/ now > refreshDeadline)
                        /\ thPc'[k] # "build" => thPc'[k] = "ret"
                  /\ (thPc[k] = "build" /\ thPc'[k] # "build") =>
                        /\ Current' \notin 0..allocated
                        /\ refreshDeadline' =
                              thLoc[k].now + Pol.keepaliveTimeout
                  /\ (thPc[k] = "ret" /\ thPc'[k] # "ret") =>
                        lastRet'[k] = Current
            /\ (transport' # transport \/ refreshDeadline' # refreshDeadline)
                  => \E k \in Workers : thPc[k] = "build" /\ thPc'[k] = "ret"
         ]_vars
    /\ []((~StaticPolicy /\ Keepalive = Ptr(1)) =>
            \A k \in Workers :
                (thPc[k] = "ret" /\ Current = 1) =>
                    thLoc[k].now < (refreshDeadline - 1 * Second) + 11)

\* keep-alive of 1s: a caller that was returned the first transport is, 1.1s
\* after the first call, about to be returned the second
C11_Witness ==
    /\ ~StaticPolicy
    /\ Keepalive = Ptr(1)
    /\ \E k \in Workers :
          /\ thPc[k] = "ret"
          /\ lastRet[k] = 1
          /\ thLoc[k].now = 12
          /\ Current = 2
          /\ refreshDeadline = 12 + 1 * Second

\* C12: a rotation leaves the old transport alone but for one drain of its
\* idle connections: every transport that was replaced has exactly one
\* drain, pending or done, the current transport has none, a drain is
\* started only by a build that replaces a transport, due idleTimeout + 1s
\* after it, the build goes on to its return in the same step, a drain is
\* done no earlier than it is due, and the first build starts no drain.
C12_OldOnlyDrainedLater ==
    /\ [](~StaticPolicy =>
            /\ \A d \in drains : d.id \in 1..(Current - 1)
            /\ closedIdle \subseteq 1..(Current - 1)
            /\ \A id \in 1..(Current - 1) :
                  Cardinality({d \in drains : d.id = id})
                    + (IF id \in closedIdle THEN 1 ELSE 0) = 1
            /\ allocated <= 1 => (drains = {} /\ closedIdle = {}))
    /\ [][~StaticPolicy =>
            /\ \A d \in drains' \ drains :
                  /\ d.id = Current
                  /\ Current # 0
                  /\ Current' # Current
                  /\ d.at = now + Pol.idleTimeout + 1 * Second
                  /\ \E k \in Workers : thPc[k] = "build" /\ thPc'[k] = "ret"
            /\ \A id \in closedIdle' \ closedIdle :
                  \E d \in drains : d.id = id /\ now >= d.at /\ d \notin drains'
         ]_vars

\* the caller that rotated has been returned the new transport and the old
\* one's drain is still to come
C12_Witness ==
    /\ ~StaticPolicy
    /\ Current = 2
    /\ \E d \in drains : d.id = 1 /\ d.at > now
    /\ closedIdle = {}
    /\ \E k \in Workers : lastRet[k] = 2 /\ thPc[k] = "idle"

\* C19: calls exclude each other; a call builds only while the holder still
\* has no transport or the time the call read is still after the deadline, so
\* that builds are more than a keep-alive duration apart (one per expiry);
\* every call returns the newest transport; transport and refreshDeadline
\* change in the same step or not at all.
C19_AtomicRotation ==
    /\ [](~StaticPolicy =>
            /\ Cardinality({k \in Workers : thPc[k] # "idle"}) <= 1
            /\ Current = allocated
            /\ allocated >= 1 =>
                  now >= 1 + (allocated - 1) * (Pol.keepaliveTimeout + 1))
    /\ [][~StaticPolicy =>
            /\ \A k \in Workers :
                  /\ (thPc[k] = "build" /\ thPc'[k] # "build") =>
                        /\ transport = Nil \/ thLoc[k].now > refreshDeadline
                        /\ allocated' = allocated + 1
                  /\ (thPc[k] = "ret" /\ thPc'[k] # "ret") =>
                        lastRet'[k] = allocated
            /\ (transport' # transport) <=> (refreshDeadline' # refreshDeadline)
         ]_vars

\* after the deadline has passed both callers have called and both were
\* returned the one transport built for that expiry
C19_Witness ==
    /\ ~StaticPolicy
    /\ Keepalive = Ptr(1)
    /\ allocated = 2
    /\ now = 12
    /\ \A k \in Workers : lastRet[k] = 2 /\ thPc[k] = "idle"

====
